---- MODULE Spec2Model ----
(***************************************************************************)
(* Model of the video upload endpoint (handlerUploadVideo) and of the      *)
(* aspect-ratio classifier (getVideoAspectRatio) of tubely_file_storage.   *)
(*                                                                         *)
(* Each concurrent request runs handlerUploadVideo; one action per call    *)
(* the handler makes, in source order.  The record store, the object       *)
(* store, the credential validator and the local temp directory are       *)
(* collaborators whose outcome (success or error) is a nondeterministic    *)
(* input of the step that calls them.                                      *)
(***************************************************************************)
EXTENDS Integers, Sequences, FiniteSets, TLC

VARIABLES
    db,         \* record store: video id -> [ID, UserID, VideoURL]
    s3,         \* object store: key -> [Bucket, Body, ContentType]
    fs,         \* temp directory: file name -> bytes written so far
    h,          \* per request: the handler's frame (pc and local variables)
    used,       \* byte strings crypto/rand has already returned
    calls,      \* per request: log of the PutObject / UpdateVideo calls made
                \* (history only: no action reads it)
    ffStreams,  \* classifier harness: the probe output handed to the classifier
    ffLabel,    \* classifier harness: what getVideoAspectRatio returned
    ffPc        \* classifier harness: "probe" while building, then "done"

vars == <<db, s3, fs, h, used, calls, ffStreams, ffLabel, ffPc>>
hvars == <<db, s3, fs, h, used, calls>>
cvars == <<ffStreams, ffLabel, ffPc>>

-----------------------------------------------------------------------------
(* Bounds of the model *)

NumTempNames == 2     \* names os.CreateTemp can pick for "tubely-upload-*.mp4"
NumSeeds == 2         \* distinct outputs of crypto/rand
MaxStreams == 2       \* streams in one probe output (classifier harness)
MaxDim == 16          \* largest width / height (classifier harness)

(* Program constants *)

RandomLen == 32       \* make([]byte, 32)

StatusOK == 200
StatusBadRequest == 400
StatusUnauthorized == 401
StatusForbidden == 403
StatusNotFound == 404
StatusInternalServerError == 500

\* The two concurrent requests the model runs
Requests == {1, 2}
Nil == "<nil>"

-----------------------------------------------------------------------------
(* Configuration (cfg) and the request inputs the model draws from *)

s3Bucket == "tubely-bucket"
s3Region == "us-east-2"

Users == {"u1", "u2"}
\* path values: two ids with a record, one well-formed id with none, one malformed
StoredIDs == {"v1", "v2"}
UUIDs == StoredIDs \cup {"v3"}
PathValues == UUIDs \cup {"not-a-uuid"}
ContentTypes == {"video/mp4", "image/png", "video/mp4; codecs", ";;"}

-----------------------------------------------------------------------------
(* getVideoAspectRatio *)

Stream(ct, w, ht, rot) ==
    [codec_type |-> ct, width |-> w, height |-> ht, rotate |-> rot]

Rotations == {"", "90", "180", "270"}

\* Variant of BandLabel: the lower ends of the bands included
BandLabelInclusive(w, ht) ==
    IF 100 * w >= 160 * ht /\ 100 * w < 185 * ht THEN "16:9"
    ELSE IF 100 * w >= 128 * ht /\ 100 * w < 136 * ht THEN "4:3"
    ELSE IF 100 * w >= 53 * ht /\ 100 * w < 62 * ht THEN "9:16"
    ELSE IF 100 * w >= 73 * ht /\ 100 * w < 82 * ht THEN "3:4"
    ELSE "<nil>"

\* The comparisons on ar := float64(w) / float64(h).  For integers below
\* 2^26 the correctly rounded quotient compares with the float64 constant
\* c exactly as the rational w/h compares with c, so each test is cross-
\* multiplied: ar > 1.6 is 100*w > 160*h.  The result is the label returned
\* inside the loop, or Nil when no return is taken for this stream.
BandLabel(w, ht) ==
    IF 100 * w > 160 * ht /\ 100 * w < 185 * ht THEN "16:9"
    ELSE IF 100 * w > 128 * ht /\ 100 * w < 136 * ht THEN "4:3"
    ELSE IF 100 * w > 53 * ht /\ 100 * w < 62 * ht THEN "9:16"
    ELSE IF 100 * w > 73 * ht /\ 100 * w < 82 * ht THEN "3:4"
    ELSE Nil

\* w, h := s.Width, s.Height; swapped when the rotate tag is "90" or "270"
Rotated(s) ==
    IF s.rotate = "90" \/ s.rotate = "270"
    THEN [w |-> s.height, ht |-> s.width]
    ELSE [w |-> s.width, ht |-> s.height]

\* One iteration of the loop body: Nil stands for "continue / fall through".
StreamLabel(s) ==
    IF s.codec_type # "video" THEN Nil
    ELSE IF s.width <= 0 \/ s.height <= 0 THEN Nil
    ELSE BandLabel(Rotated(s).w, Rotated(s).ht)

\* for _, s := range ff.Streams { ... }; return "other", nil
RECURSIVE ClassifyStreams(_)
ClassifyStreams(streams) ==
    IF streams = <<>> THEN "other"
    ELSE IF StreamLabel(Head(streams)) # Nil THEN StreamLabel(Head(streams))
    ELSE ClassifyStreams(Tail(streams))

\* probe = [runOK, jsonOK, streams]: whether ffprobe exited with success,
\* whether its output unmarshalled, and the streams it listed.
getVideoAspectRatio(probe) ==
    IF ~probe.runOK THEN [label |-> "", err |-> TRUE]
    ELSE IF ~probe.jsonOK THEN [label |-> "", err |-> TRUE]
    ELSE [label |-> ClassifyStreams(probe.streams), err |-> FALSE]

\* switch aspectRatio { case "16:9", "4:3": landscape; case "9:16", "3:4": portrait }
AspectRatioPrefix(aspectRatio) ==
    IF aspectRatio \in {"16:9", "4:3"} THEN "landscape"
    ELSE IF aspectRatio \in {"9:16", "3:4"} THEN "portrait"
    ELSE "other"

-----------------------------------------------------------------------------
(* hex.EncodeToString and the strings built with fmt.Sprintf *)

HexTable == <<"0", "1", "2", "3", "4", "5", "6", "7",
              "8", "9", "a", "b", "c", "d", "e", "f">>

\* dst[2i] = hextable[v>>4]; dst[2i+1] = hextable[v&0x0f]
RECURSIVE EncodeChars(_)
EncodeChars(bytes) ==
    IF bytes = <<>> THEN <<>>
    ELSE <<HexTable[(Head(bytes) \div 16) + 1], HexTable[(Head(bytes) % 16) + 1]>>
         \o EncodeChars(Tail(bytes))

RECURSIVE Join(_)
Join(chars) == IF chars = <<>> THEN "" ELSE Head(chars) \o Join(Tail(chars))

EncodeToString(bytes) == Join(EncodeChars(bytes))

\* Variant of S3Key: the key without the classification prefix
S3KeyNoPrefix(aspectRatioPrefix, randomHexFilename) ==
    "videos/" \o randomHexFilename \o ".mp4"

\* Variant of S3Key: the key without the random name
S3KeyNoRandom(aspectRatioPrefix, randomHexFilename) ==
    "videos/" \o aspectRatioPrefix \o "/video.mp4"

\* fmt.Sprintf("videos/%s/%s.mp4", aspectRatioPrefix, randomHexFilename)
S3Key(aspectRatioPrefix, randomHexFilename) ==
    "videos/" \o aspectRatioPrefix \o "/" \o randomHexFilename \o ".mp4"

\* fmt.Sprintf("https://%s.s3.%s.amazonaws.com/%s", cfg.s3Bucket, cfg.s3Region, s3Key)
VideoURL(key) ==
    "https://" \o s3Bucket \o ".s3." \o s3Region \o ".amazonaws.com/" \o key

\* mime.ParseMediaType on the part's Content-Type header: the media type
\* without its parameters, or an error for a header with no media type.
ParseMediaType(header) ==
    IF header = "video/mp4; codecs" THEN [mediaType |-> "video/mp4", err |-> FALSE]
    ELSE IF header = ";;" THEN [mediaType |-> "", err |-> TRUE]
    ELSE [mediaType |-> header, err |-> FALSE]

\* crypto/rand: the seed-th distinct 32-byte output
RandomBytes(seed) == [i \in 1..RandomLen |-> (seed * 89 + i * 57) % 256]

-----------------------------------------------------------------------------
(* The uploaded files the model draws from: the bytes of the "video" part   *)
(* and what ffprobe -show_streams reports for a file holding those bytes.   *)

Media == <<
    [data |-> <<1, 1>>, runOK |-> TRUE, jsonOK |-> TRUE,
     streams |-> <<Stream("video", 1920, 1080, ""), Stream("audio", 0, 0, "")>>],
    [data |-> <<2, 2>>, runOK |-> TRUE, jsonOK |-> TRUE,
     streams |-> <<Stream("audio", 0, 0, ""), Stream("video", 1920, 1080, "90")>>],
    [data |-> <<3, 3>>, runOK |-> TRUE, jsonOK |-> TRUE,
     streams |-> <<Stream("video", 640, 640, "")>>],
    [data |-> <<4, 4>>, runOK |-> FALSE, jsonOK |-> FALSE, streams |-> <<>>] >>

\* exec.Command("ffprobe", ..., filePath).Run() on a file holding `data`
FFProbe(data) ==
    IF \E i \in DOMAIN Media : Media[i].data = data
    THEN LET i == CHOOSE j \in DOMAIN Media : Media[j].data = data
         IN  [runOK |-> Media[i].runOK, jsonOK |-> Media[i].jsonOK,
              streams |-> Media[i].streams]
    ELSE [runOK |-> FALSE, jsonOK |-> FALSE, streams |-> <<>>]

-----------------------------------------------------------------------------
(* Initial state *)

Frame0 ==
    [pc |-> "ParseVideoID", videoID |-> Nil, userID |-> Nil,
     video |-> [ID |-> Nil, UserID |-> Nil, VideoURL |-> Nil],
     mediaType |-> Nil, tempFile |-> Nil, offset |-> 0, deferred |-> <<>>,
     aspectRatio |-> Nil, aspectRatioPrefix |-> Nil, randomBytes |-> <<>>,
     s3Key |-> Nil, status |-> 0, message |-> Nil, video_url |-> Nil,
     part |-> <<>>]

InitHandler ==
    /\ db = [v \in StoredIDs |->
                [ID |-> v, UserID |-> IF v = "v1" THEN "u1" ELSE "u2", VideoURL |-> Nil]]
    /\ s3 = <<>>
    /\ fs = <<>>
    /\ h = [r \in Requests |-> Frame0]
    /\ used = {}
    /\ calls = [r \in Requests |-> <<>>]

InitClassifier ==
    /\ ffStreams = <<>>
    /\ ffLabel = [label |-> Nil, err |-> FALSE]
    /\ ffPc = "probe"

Init == InitHandler /\ InitClassifier

-----------------------------------------------------------------------------
(* handlerUploadVideo *)

Merge(frame, upd) ==
    [k \in DOMAIN frame |-> IF k \in DOMAIN upd THEN upd[k] ELSE frame[k]]

Set(r, upd) == h' = [h EXCEPT ![r] = Merge(h[r], upd)]

\* respondWithError(w, code, msg, err); return
RespondWithError(r, code, msg) ==
    Set(r, [pc |-> "return", status |-> code, message |-> msg])

\* videoID, err := uuid.Parse(r.PathValue("videoID"))
ParseVideoID(r) ==
    /\ h[r].pc = "ParseVideoID"
    /\ \E p \in PathValues :
          IF p \notin UUIDs
          THEN RespondWithError(r, StatusBadRequest, "Invalid ID")
          ELSE Set(r, [pc |-> "GetBearerToken", videoID |-> p])
    /\ UNCHANGED <<db, s3, fs, used, calls, cvars>>

\* token, err := auth.GetBearerToken(r.Header)
GetBearerToken(r) ==
    /\ h[r].pc = "GetBearerToken"
    /\ \E present \in BOOLEAN :
          IF ~present
          THEN RespondWithError(r, StatusUnauthorized, "Couldn't find JWT")
          ELSE Set(r, [pc |-> "ValidateJWT"])
    /\ UNCHANGED <<db, s3, fs, used, calls, cvars>>

\* userID, err := auth.ValidateJWT(token, cfg.jwtSecret)
ValidateJWT(r) ==
    /\ h[r].pc = "ValidateJWT"
    /\ \/ RespondWithError(r, StatusUnauthorized, "Couldn't validate JWT")
       \/ \E u \in Users : Set(r, [pc |-> "GetVideo", userID |-> u])
    /\ UNCHANGED <<db, s3, fs, used, calls, cvars>>

\* The record store (internal/database): get(id) -> record | not-found
dbGetVideo(id) ==
    IF id \in DOMAIN db THEN [video |-> db[id], err |-> FALSE]
    ELSE [video |-> [ID |-> Nil, UserID |-> Nil, VideoURL |-> Nil], err |-> TRUE]

\* The record store: update(record) overwrites the record keyed by record.ID
dbUpdateVideo(video) == [db EXCEPT ![video.ID] = video]

\* Variant of GetVideo: the ownership test is missing
GetVideoNoOwnerCheck(r) ==
    /\ h[r].pc = "GetVideo"
    /\ LET got == dbGetVideo(h[r].videoID)
       IN  IF got.err
           THEN RespondWithError(r, StatusNotFound, "Video not found")
           ELSE Set(r, [pc |-> "ParseMultipartForm", video |-> got.video])
    /\ UNCHANGED <<db, s3, fs, used, calls, cvars>>

\* video, err := cfg.db.GetVideo(videoID), then the ownership test
GetVideo(r) ==
    /\ h[r].pc = "GetVideo"
    /\ LET got == dbGetVideo(h[r].videoID)
       IN  IF got.err
           THEN RespondWithError(r, StatusNotFound, "Video not found")
           ELSE IF got.video.UserID # h[r].userID
           THEN Set(r, [pc |-> "return", status |-> StatusForbidden,
                        message |-> "You do not own this video",
                        video |-> got.video])
           ELSE Set(r, [pc |-> "ParseMultipartForm", video |-> got.video])
    /\ UNCHANGED <<db, s3, fs, used, calls, cvars>>

\* Variant of ParseMultipartForm: a malformed form answered as a client error
ParseMultipartFormBadRequest(r) ==
    /\ h[r].pc = "ParseMultipartForm"
    /\ \/ RespondWithError(r, StatusBadRequest, "Failed to parse multipart form")
       \/ Set(r, [pc |-> "FormFile"])
    /\ UNCHANGED <<db, s3, fs, used, calls, cvars>>

\* err = r.ParseMultipartForm(maxMemory)
ParseMultipartForm(r) ==
    /\ h[r].pc = "ParseMultipartForm"
    /\ \/ RespondWithError(r, StatusInternalServerError, "Failed to parse multipart form")
       \/ Set(r, [pc |-> "FormFile"])
    /\ UNCHANGED <<db, s3, fs, used, calls, cvars>>

\* file, fileHeader, err := r.FormFile("video"); defer file.Close()
FormFile(r) ==
    /\ h[r].pc = "FormFile"
    /\ \/ RespondWithError(r, StatusBadRequest, "Failed to retrieve video file")
       \/ Set(r, [pc |-> "ParseMediaType", deferred |-> <<"file.Close">>])
    /\ UNCHANGED <<db, s3, fs, used, calls, cvars>>

\* Variant of CheckMediaType: the "Invalid file type" branch lacks its return
CheckMediaTypeNoReturn(r) ==
    /\ h[r].pc = "ParseMediaType"
    /\ \E ct \in ContentTypes :
          IF ParseMediaType(ct).err
          THEN RespondWithError(r, StatusBadRequest, "Invalid Content-Type")
          ELSE IF ParseMediaType(ct).mediaType # "video/mp4"
          THEN Set(r, [pc |-> "CreateTemp", status |-> StatusBadRequest,
                       message |-> "Invalid file type",
                       mediaType |-> ParseMediaType(ct).mediaType])
          ELSE Set(r, [pc |-> "CreateTemp", mediaType |-> ParseMediaType(ct).mediaType])
    /\ UNCHANGED <<db, s3, fs, used, calls, cvars>>

\* mediaType, _, err := mime.ParseMediaType(fileHeader.Header.Get("Content-Type"))
CheckMediaType(r) ==
    /\ h[r].pc = "ParseMediaType"
    /\ \E ct \in ContentTypes :
          IF ParseMediaType(ct).err
          THEN RespondWithError(r, StatusBadRequest, "Invalid Content-Type")
          ELSE IF ParseMediaType(ct).mediaType # "video/mp4"
          THEN Set(r, [pc |-> "return", status |-> StatusBadRequest,
                       message |-> "Invalid file type",
                       mediaType |-> ParseMediaType(ct).mediaType])
          ELSE Set(r, [pc |-> "CreateTemp", mediaType |-> ParseMediaType(ct).mediaType])
    /\ UNCHANGED <<db, s3, fs, used, calls, cvars>>

\* The names the pattern "tubely-upload-*.mp4" can expand to
TempNames == {"tubely-upload-" \o ToString(i) \o ".mp4" : i \in 1..NumTempNames}

\* tempFile, err := os.CreateTemp("", "tubely-upload-*.mp4"), then the
\* defer of tempFile.Close() and os.Remove(tempFile.Name()).  CreateTemp
\* opens with O_EXCL: the name it returns is one no existing file has.
CreateTemp(r) ==
    /\ h[r].pc = "CreateTemp"
    /\ \/ /\ RespondWithError(r, StatusInternalServerError, "Failed to create temp file")
          /\ UNCHANGED fs
       \/ \E n \in TempNames \ DOMAIN fs :
          /\ fs' = (n :> [creator |-> r, data |-> <<>>]) @@ fs
          /\ Set(r, [pc |-> "Copy", tempFile |-> n, offset |-> 0,
                     deferred |-> h[r].deferred \o <<"tempFile.Remove">>])
    /\ UNCHANGED <<db, s3, used, calls, cvars>>

\* _, err = io.Copy(tempFile, file): on an error some prefix of the part
\* has been written
Copy(r) ==
    /\ h[r].pc = "Copy"
    /\ \E m \in DOMAIN Media :
          \/ \E written \in 0..Len(Media[m].data) :
                /\ fs' = [fs EXCEPT ![h[r].tempFile].data = SubSeq(Media[m].data, 1, written)]
                /\ Set(r, [pc |-> "return", status |-> StatusInternalServerError,
                           message |-> "Failed to save uploaded file",
                           offset |-> written, part |-> Media[m].data])
          \/ /\ fs' = [fs EXCEPT ![h[r].tempFile].data = Media[m].data]
             /\ Set(r, [pc |-> "getVideoAspectRatio", offset |-> Len(Media[m].data),
                        part |-> Media[m].data])
    /\ UNCHANGED <<db, s3, used, calls, cvars>>

\* aspectRatio, err := getVideoAspectRatio(tempFile.Name()), then the switch
\* that sets aspectRatioPrefix
ProbeAspectRatio(r) ==
    /\ h[r].pc = "getVideoAspectRatio"
    /\ LET res == getVideoAspectRatio(FFProbe(fs[h[r].tempFile].data))
       IN  IF res.err
           THEN RespondWithError(r, StatusInternalServerError,
                                 "Failed to get video aspect ratio")
           ELSE Set(r, [pc |-> "Seek", aspectRatio |-> res.label,
                        aspectRatioPrefix |-> AspectRatioPrefix(res.label)])
    /\ UNCHANGED <<db, s3, fs, used, calls, cvars>>

\* Variant of Seek: the staged file is not rewound
SeekSkipped(r) ==
    /\ h[r].pc = "Seek"
    /\ Set(r, [pc |-> "Read"])
    /\ UNCHANGED <<db, s3, fs, used, calls, cvars>>

\* _, err = tempFile.Seek(0, io.SeekStart)
Seek(r) ==
    /\ h[r].pc = "Seek"
    /\ \/ RespondWithError(r, StatusInternalServerError, "Failed to seek temp file")
       \/ Set(r, [pc |-> "Read", offset |-> 0])
    /\ UNCHANGED <<db, s3, fs, used, calls, cvars>>

Seeds == 1..NumSeeds

\* _, err = crand.Read(randomBytes); randomHexFilename; s3Key.  The source
\* of randomness is modelled as never repeating a 32-byte output.
RandRead(r) ==
    /\ h[r].pc = "Read"
    /\ \/ /\ RespondWithError(r, StatusInternalServerError, "Error generating random filename")
          /\ UNCHANGED used
       \/ \E seed \in Seeds :
          /\ RandomBytes(seed) \notin used
          /\ used' = used \cup {RandomBytes(seed)}
          /\ Set(r, [pc |-> "PutObject", randomBytes |-> RandomBytes(seed),
                     s3Key |-> S3Key(h[r].aspectRatioPrefix,
                                     EncodeToString(RandomBytes(seed)))])
    /\ UNCHANGED <<db, s3, fs, calls, cvars>>

\* What the Body reader yields: the file from the descriptor's offset on
Body(r) ==
    SubSeq(fs[h[r].tempFile].data, h[r].offset + 1, Len(fs[h[r].tempFile].data))

\* Variant of PutObject: the error branch lacks its return
PutObjectNoReturn(r) ==
    /\ h[r].pc = "PutObject"
    /\ \E ok \in BOOLEAN :
          /\ s3' = IF ok
                   THEN (h[r].s3Key :> [Bucket |-> s3Bucket, Body |-> Body(r),
                                        ContentType |-> h[r].mediaType])
                        @@ [k \in DOMAIN s3 \ {h[r].s3Key} |-> s3[k]]
                   ELSE s3
          /\ calls' = [calls EXCEPT ![r] = Append(@,
                [op |-> "PutObject", id |-> Nil, key |-> h[r].s3Key,
                 url |-> Nil, ok |-> ok])]
          /\ Set(r, [pc |-> "UpdateVideo",
                     deferred |-> h[r].deferred \o <<"cancel">>])
    /\ UNCHANGED <<db, fs, used, cvars>>

\* _, err = cfg.s3Client.PutObject(ctx, &s3.PutObjectInput{...})
PutObject(r) ==
    /\ h[r].pc = "PutObject"
    /\ \/ /\ RespondWithError(r, StatusInternalServerError, "Failed to upload file to S3")
          /\ calls' = [calls EXCEPT ![r] = Append(@,
                [op |-> "PutObject", id |-> Nil, key |-> h[r].s3Key,
                 url |-> Nil, ok |-> FALSE])]
          /\ UNCHANGED s3
       \/ /\ s3' = (h[r].s3Key :> [Bucket |-> s3Bucket, Body |-> Body(r),
                                   ContentType |-> h[r].mediaType])
                   @@ [k \in DOMAIN s3 \ {h[r].s3Key} |-> s3[k]]
          /\ calls' = [calls EXCEPT ![r] = Append(@,
                [op |-> "PutObject", id |-> Nil, key |-> h[r].s3Key,
                 url |-> Nil, ok |-> TRUE])]
          /\ Set(r, [pc |-> "UpdateVideo",
                     deferred |-> h[r].deferred \o <<"cancel">>])
    /\ UNCHANGED <<db, fs, used, cvars>>

\* videoURL := ...; video.VideoURL = &u; err = cfg.db.UpdateVideo(video);
\* respondWithJSON(w, http.StatusOK, response)
UpdateVideo(r) ==
    /\ h[r].pc = "UpdateVideo"
    /\ LET videoURL == VideoURL(h[r].s3Key)
           video == [h[r].video EXCEPT !.VideoURL = videoURL]
       IN  \/ /\ calls' = [calls EXCEPT ![r] = Append(@,
                    [op |-> "UpdateVideo", id |-> video.ID, key |-> Nil,
                     url |-> video.VideoURL, ok |-> FALSE])]
              /\ Set(r, [pc |-> "return", status |-> StatusInternalServerError,
                         message |-> "Failed to update video URL in database",
                         video |-> video])
              /\ UNCHANGED db
           \/ /\ db' = dbUpdateVideo(video)
              /\ calls' = [calls EXCEPT ![r] = Append(@,
                    [op |-> "UpdateVideo", id |-> video.ID, key |-> Nil,
                     url |-> video.VideoURL, ok |-> TRUE])]
              /\ Set(r, [pc |-> "return", status |-> StatusOK,
                         message |-> "Video uploaded successfully",
                         video_url |-> videoURL, video |-> video])
    /\ UNCHANGED <<s3, fs, used, cvars>>

\* Variant of RunDeferred: the staged file is removed on the success path only
RunDeferredOnSuccessOnly(r) ==
    /\ h[r].pc = "return"
    /\ fs' = IF h[r].status = StatusOK
             THEN [n \in DOMAIN fs \ {h[r].tempFile} |-> fs[n]]
             ELSE fs
    /\ Set(r, [pc |-> "done", deferred |-> <<>>])
    /\ UNCHANGED <<db, s3, used, calls, cvars>>

\* The deferred calls, run when the handler returns: cancel(), then
\* tempFile.Close() and os.Remove(tempFile.Name()), then file.Close().
RunDeferred(r) ==
    /\ h[r].pc = "return"
    /\ fs' = IF \E i \in DOMAIN h[r].deferred : h[r].deferred[i] = "tempFile.Remove"
             THEN [n \in DOMAIN fs \ {h[r].tempFile} |-> fs[n]]
             ELSE fs
    /\ Set(r, [pc |-> "done", deferred |-> <<>>])
    /\ UNCHANGED <<db, s3, used, calls, cvars>>

handlerUploadVideo(r) ==
    \/ ParseVideoID(r)
    \/ GetBearerToken(r)
    \/ ValidateJWT(r)
    \/ GetVideo(r)
    \/ ParseMultipartForm(r)
    \/ FormFile(r)
    \/ CheckMediaType(r)
    \/ CreateTemp(r)
    \/ Copy(r)
    \/ ProbeAspectRatio(r)
    \/ Seek(r)
    \/ RandRead(r)
    \/ PutObject(r)
    \/ UpdateVideo(r)
    \/ RunDeferred(r)

Next == \E r \in Requests : handlerUploadVideo(r)

Spec == Init /\ [][Next]_vars

-----------------------------------------------------------------------------
(* The classifier on its own: a probe output is built stream by stream and  *)
(* handed to getVideoAspectRatio.                                           *)

Dims == 0..MaxDim

AllStreams ==
    {Stream("video", w, ht, rot) : w \in Dims, ht \in Dims, rot \in Rotations}
    \cup {Stream("audio", 0, 0, "")}

SampleStreams ==
    {Stream("audio", 0, 0, ""), Stream("video", 16, 9, ""),
     Stream("video", 4, 4, ""), Stream("video", 0, 9, "")}

\* ffprobe lists one more stream: any stream of AllStreams, at most one of
\* them outside SampleStreams
AppendStream ==
    /\ ffPc = "probe"
    /\ Len(ffStreams) < MaxStreams
    /\ \E s \in AllStreams :
          /\ s \in SampleStreams \/ \A i \in DOMAIN ffStreams : ffStreams[i] \in SampleStreams
          /\ ffStreams' = Append(ffStreams, s)
    /\ UNCHANGED <<ffLabel, ffPc, hvars>>

\* aspectRatio, err := getVideoAspectRatio(path)
Classify ==
    /\ ffPc = "probe"
    /\ \E runOK \in BOOLEAN, jsonOK \in BOOLEAN :
          ffLabel' = getVideoAspectRatio(
                        [runOK |-> runOK, jsonOK |-> jsonOK, streams |-> ffStreams])
    /\ ffPc' = "done"
    /\ UNCHANGED <<ffStreams, hvars>>

NextClassify == AppendStream \/ Classify

SpecClassify == Init /\ [][NextClassify]_vars

-----------------------------------------------------------------------------
(* Vocabulary of the properties *)

Done(r) == h[r].pc = "done"
Responded(r) == h[r].pc \in {"return", "done"}
Failed(r) == Responded(r) /\ h[r].status # 200

\* No other request has taken a step yet
OthersIdle(r) == \A q \in Requests \ {r} : h[q].pc = "ParseVideoID"

OkPuts(r) ==
    {calls[r][i].key : i \in {j \in DOMAIN calls[r] :
                                calls[r][j].op = "PutObject" /\ calls[r][j].ok}}

OkUpdates(r) ==
    {j \in DOMAIN calls[r] : calls[r][j].op = "UpdateVideo" /\ calls[r][j].ok}

StoreUntouched == DOMAIN s3 = {}
RecordsUntouched == \A v \in DOMAIN db : db[v].VideoURL = "<nil>"

UrlOfKey(key) == "https://tubely-bucket.s3.us-east-2.amazonaws.com/" \o key

-----------------------------------------------------------------------------
\* C1: UpdateVideo is called only after a PutObject of the same request
\* returned success for the key the written URL names, and every URL a
\* record holds names an object the store holds (no dangling URL), in every
\* reachable state.
C1_UpdateOnlyAfterUpload ==
    /\ \A r \in Requests : \A i \in DOMAIN calls[r] :
          calls[r][i].op = "UpdateVideo" =>
             \E j \in 1..(i - 1) :
                /\ calls[r][j].op = "PutObject"
                /\ calls[r][j].ok
                /\ UrlOfKey(calls[r][j].key) = calls[r][i].url
    /\ \A v \in DOMAIN db :
          db[v].VideoURL # "<nil>" =>
             \E k \in DOMAIN s3 : UrlOfKey(k) = db[v].VideoURL

\* A record holds a URL while another request has failed at the upload.
C1_Witness ==
    /\ \E v \in DOMAIN db : db[v].VideoURL # "<nil>"
    /\ \E r \in Requests : Done(r) /\ h[r].message = "Failed to upload file to S3"

-----------------------------------------------------------------------------
\* Outcome (a): the object is stored under the request's key with the
\* uploaded bytes, the record update for the request's id succeeded, and the
\* success payload carries the final URL.
SuccessOutcome(r) ==
    /\ h[r].status = 200
    /\ h[r].message = "Video uploaded successfully"
    /\ h[r].video_url = UrlOfKey(h[r].s3Key)
    /\ h[r].s3Key \in DOMAIN s3
    /\ s3[h[r].s3Key].Body = h[r].part
    /\ s3[h[r].s3Key].ContentType = "video/mp4"
    /\ OkPuts(r) = {h[r].s3Key}
    /\ \E i \in OkUpdates(r) :
          calls[r][i].id = h[r].videoID /\ calls[r][i].url = h[r].video_url
    /\ OthersIdle(r) => db[h[r].videoID].VideoURL = h[r].video_url

\* C2 as stated: every finished request either succeeded (a) or answered
\* with an error having changed neither the object store nor any record.
C2_AllOrNothing ==
    \A r \in Requests :
       Done(r) =>
          \/ SuccessOutcome(r)
          \/ /\ h[r].status \in {400, 401, 403, 404, 500}
             /\ OkPuts(r) = {}
             /\ OkUpdates(r) = {}
             /\ OthersIdle(r) => StoreUntouched /\ RecordsUntouched

\* C2 amended: an error leaves every record unchanged; it leaves the object
\* store unchanged too, except that after a record-update failure the object
\* uploaded by the request remains stored.
C2_AllOrOrphan ==
    \A r \in Requests :
       Done(r) =>
          \/ SuccessOutcome(r)
          \/ /\ h[r].status \in {400, 401, 403, 404, 500}
             /\ OkUpdates(r) = {}
             /\ OthersIdle(r) => RecordsUntouched
             /\ IF h[r].message = "Failed to update video URL in database"
                THEN /\ OkPuts(r) = {h[r].s3Key}
                     /\ h[r].s3Key \in DOMAIN s3
                     /\ s3[h[r].s3Key].Body = h[r].part
                ELSE /\ OkPuts(r) = {}
                     /\ OthersIdle(r) => StoreUntouched

\* One request succeeded and another failed at the record update.
C2_Witness ==
    \E r, q \in Requests :
       /\ Done(r) /\ h[r].status = 200
       /\ Done(q) /\ h[q].message = "Failed to update video URL in database"

-----------------------------------------------------------------------------
\* C3: once the handler has returned, on any path, no staged file created
\* by that request exists in the temp directory.
C3_NoStagedFileAfterReturn ==
    \A r \in Requests :
       Done(r) => \A n \in DOMAIN fs : fs[n].creator # r

\* A request that created its staged file and then failed has returned,
\* and so has one that created it and succeeded.
C3_Witness ==
    \E r, q \in Requests :
       /\ Done(r) /\ h[r].tempFile # "<nil>" /\ h[r].status = 500
       /\ Done(q) /\ h[q].tempFile # "<nil>" /\ h[q].status = 200

-----------------------------------------------------------------------------
PreUploadErrors ==
    {"Invalid ID", "Couldn't find JWT", "Couldn't validate JWT",
     "Video not found", "You do not own this video",
     "Failed to parse multipart form", "Failed to retrieve video file",
     "Invalid Content-Type", "Invalid file type",
     "Failed to create temp file", "Failed to save uploaded file",
     "Failed to get video aspect ratio", "Failed to seek temp file",
     "Error generating random filename"}

\* C4: a request that failed at a step before the remote upload has called
\* neither PutObject nor UpdateVideo, and has left the object store and
\* the records as they were.
C4_NoEffectsBeforeUpload ==
    \A r \in Requests :
       h[r].message \in PreUploadErrors =>
          /\ calls[r] = <<>>
          /\ OthersIdle(r) => StoreUntouched /\ RecordsUntouched

\* Every kind of failure before the upload has happened to some request
\* that is now finished (here: the probe and the random-token failure).
C4_Witness ==
    \E r, q \in Requests :
       /\ Done(r) /\ h[r].message = "Failed to get video aspect ratio"
       /\ Done(q) /\ h[q].message = "Error generating random filename"

-----------------------------------------------------------------------------
PastGetVideo(r) ==
    h[r].pc \notin {"ParseVideoID", "GetBearerToken", "ValidateJWT", "GetVideo"}

\* C5: with a valid credential and an existing record, a caller who is not
\* the record's owner is answered 403, which is not the 404 of an absent
\* record, and the handler takes no later step (no form parsing, staging,
\* upload or record update).
C5_NotOwnerForbidden ==
    \A r \in Requests :
       /\ ( /\ PastGetVideo(r)
            /\ h[r].userID # "<nil>"
            /\ h[r].videoID \in DOMAIN db
            /\ db[h[r].videoID].UserID # h[r].userID )
          => /\ Responded(r)
             /\ h[r].status = 403
             /\ h[r].message = "You do not own this video"
             /\ h[r].mediaType = "<nil>"
             /\ h[r].tempFile = "<nil>"
             /\ h[r].deferred = <<>>
             /\ calls[r] = <<>>
       /\ ( /\ PastGetVideo(r)
            /\ h[r].userID # "<nil>"
            /\ h[r].videoID \in {"v1", "v2", "v3"} \ DOMAIN db )
          => /\ Responded(r)
             /\ h[r].status = 404

\* One request was refused as not the owner, another found no record.
C5_Witness ==
    \E r, q \in Requests :
       /\ Done(r) /\ h[r].status = 403 /\ h[r].videoID = "v1" /\ h[r].userID = "u2"
       /\ Done(q) /\ h[q].status = 404 /\ h[q].videoID = "v3"

-----------------------------------------------------------------------------
\* The error kind of each error message the handler answers with
ErrorKind(msg) ==
    CASE msg = "Invalid ID" -> "bad-identifier"
      [] msg = "Couldn't find JWT" -> "missing-credential"
      [] msg = "Couldn't validate JWT" -> "invalid-credential"
      [] msg = "Video not found" -> "not-found"
      [] msg = "You do not own this video" -> "forbidden"
      [] msg = "Failed to parse multipart form" -> "malformed-form"
      [] msg = "Failed to retrieve video file" -> "missing-file-part"
      [] msg \in {"Invalid Content-Type", "Invalid file type"} -> "unsupported-media-type"
      [] msg \in {"Failed to create temp file", "Failed to save uploaded file",
                  "Failed to seek temp file", "Error generating random filename"}
            -> "local-io-failure"
      [] msg = "Failed to get video aspect ratio" -> "probe-failure"
      [] msg = "Failed to upload file to S3" -> "remote-upload-failure"
      [] msg = "Failed to update video URL in database" -> "record-update-failure"
      [] OTHER -> "none"

\* C6 as stated: two error responses of different kinds never carry the
\* same status.
C6_DistinctStatusPerKind ==
    \A r, q \in Requests :
       (Failed(r) /\ Failed(q) /\ ErrorKind(h[r].message) # ErrorKind(h[q].message))
          => h[r].status # h[q].status

\* The status the amended claim gives each kind
KindStatus(kind) ==
    CASE kind \in {"bad-identifier", "missing-file-part", "unsupported-media-type"} -> 400
      [] kind \in {"missing-credential", "invalid-credential"} -> 401
      [] kind = "forbidden" -> 403
      [] kind = "not-found" -> 404
      [] kind \in {"malformed-form", "local-io-failure", "probe-failure",
                   "remote-upload-failure", "record-update-failure"} -> 500
      [] OTHER -> 0

\* C6 amended: each error kind has one status, and the twelve kinds share
\* five statuses: 400 for bad-identifier, missing-file-part and
\* unsupported-media-type; 401 for missing- and invalid-credential; 403
\* for forbidden; 404 for not-found; 500 for malformed-form,
\* local-io-failure, probe-failure, remote-upload-failure and
\* record-update-failure.
C6_FiveStatuses ==
    \A r \in Requests :
       Failed(r) =>
          /\ ErrorKind(h[r].message) # "none"
          /\ h[r].status = KindStatus(ErrorKind(h[r].message))

\* Two finished requests failed with different kinds and the same status.
C6_Witness ==
    \E r, q \in Requests :
       /\ Done(r) /\ h[r].message = "Failed to parse multipart form"
       /\ Done(q) /\ h[q].message = "Failed to get video aspect ratio"
       /\ h[r].status = h[q].status

-----------------------------------------------------------------------------
LowerHexDigits ==
    {"0", "1", "2", "3", "4", "5", "6", "7", "8", "9", "a", "b", "c", "d", "e", "f"}

Classification(label) ==
    CASE label \in {"16:9", "4:3"} -> "landscape"
      [] label \in {"9:16", "3:4"} -> "portrait"
      [] OTHER -> "other"

-----------------------------------------------------------------------------
PutKeys(r) ==
    {calls[r][i].key : i \in {j \in DOMAIN calls[r] : calls[r][j].op = "PutObject"}}

\* The record a request leaves when it runs alone: the initial record, with
\* the request's URL when it succeeded
RecordAlone(r) ==
    [ID |-> h[r].videoID,
     UserID |-> IF h[r].videoID = "v1" THEN "u1" ELSE "u2",
     VideoURL |-> IF h[r].status = 200 THEN h[r].video_url ELSE "<nil>"]

\* C8: two requests for different record identifiers do not interfere: each
\* one's UpdateVideo writes the record of its own identifier only, their
\* remote keys differ, and once a request is finished its record and its
\* object are what they would be had it run alone.
C8_DifferentRecordsIndependent ==
    \A r, q \in Requests :
       (r # q /\ h[r].videoID # h[q].videoID) =>
          /\ \A i \in DOMAIN calls[r] :
                calls[r][i].op = "UpdateVideo" => calls[r][i].id = h[r].videoID
          /\ PutKeys(r) \cap PutKeys(q) = {}
          /\ (Done(r) /\ h[r].videoID \in DOMAIN db) =>
                /\ db[h[r].videoID] = RecordAlone(r)
                /\ \A k \in OkPuts(r) :
                      /\ k \in DOMAIN s3
                      /\ s3[k].Body = h[r].part
          /\ DOMAIN s3 = OkPuts(r) \cup OkPuts(q)

\* Two uploads for different records have both succeeded.
C8_Witness ==
    /\ \A r \in Requests : Done(r) /\ h[r].status = 200
    /\ h[1].videoID # h[2].videoID

-----------------------------------------------------------------------------
(* Properties of the classifier *)

Qualifies(s) == s.codec_type = "video" /\ s.width > 0 /\ s.height > 0

Classified == ffPc = "done" /\ ~ffLabel.err

\* The label of one qualifying stream taken alone
LabelAlone(s) == ClassifyStreams(<<s>>)

\* C9: the label returned is the classification of the first video stream
\* with positive width and height, taken alone; later streams have no
\* influence; "other" when no stream passes the filter.
C9_FirstQualifyingStreamDecides ==
    Classified =>
       IF \E i \in DOMAIN ffStreams : Qualifies(ffStreams[i])
       THEN LET first == CHOOSE i \in DOMAIN ffStreams :
                            /\ Qualifies(ffStreams[i])
                            /\ \A j \in 1..(i - 1) : ~Qualifies(ffStreams[j])
            IN  ffLabel.label = LabelAlone(ffStreams[first])
       ELSE ffLabel.label = "other"

-----------------------------------------------------------------------------
\* Width and height after the rotation swap
EffW(s) == IF s.rotate \in {"90", "270"} THEN s.height ELSE s.width
EffH(s) == IF s.rotate \in {"90", "270"} THEN s.width ELSE s.height

\* The bands of the claim as stated: [1.60, 1.85) and [1.28, 1.36) on w/h
\* for 16:9 and 4:3, the same bands on h/w for 9:16 and 3:4
StatedLabel(w, ht) ==
    IF 5 * w >= 8 * ht /\ 20 * w < 37 * ht THEN "16:9"
    ELSE IF 25 * w >= 32 * ht /\ 25 * w < 34 * ht THEN "4:3"
    ELSE IF 5 * ht >= 8 * w /\ 20 * ht < 37 * w THEN "9:16"
    ELSE IF 25 * ht >= 32 * w /\ 25 * ht < 34 * w THEN "3:4"
    ELSE "other"

OpenBand(w, ht) ==
    IF 5 * w > 8 * ht /\ 20 * w < 37 * ht THEN "16:9"
    ELSE IF 25 * w > 32 * ht /\ 25 * w < 34 * ht THEN "4:3"
    ELSE IF 100 * w > 53 * ht /\ 50 * w < 31 * ht THEN "9:16"
    ELSE IF 100 * w > 73 * ht /\ 50 * w < 41 * ht THEN "3:4"
    ELSE "none"

Decides(s) == Qualifies(s) /\ OpenBand(EffW(s), EffH(s)) # "none"

\* The same stream with width and height exchanged and the rotation tag
\* moved between {90, 270} and {0, 180}
Transposed(s) ==
    [codec_type |-> s.codec_type, width |-> s.height, height |-> s.width,
     rotate |-> IF s.rotate \in {"90", "270"} THEN "" ELSE "90"]

====
